---------------------------- MODULE Spec2Model ----------------------------
(***************************************************************************)
(* Model of the dashboard script src/app.py: the wide table df_final is    *)
(* reshaped by preparar_df_long into the long table df_long (melt, split   *)
(* of the column name into ano/tipo, numeric coercion, min-max and z-score *)
(* per tipo), and the script then evaluates its four sections in order.    *)
(*                                                                         *)
(* Numbers.  A float is a record [na, num, den]: na marks a missing value  *)
(* (NaN), otherwise the value is the exact rational num/den in lowest      *)
(* terms with den > 0.  A z-score is [na, num, den, vnum, vden] and stands *)
(* for (num/den) / sqrt(vnum/vden): the deviation from the group mean over *)
(* the group's standard deviation.  Arithmetic is exact; rounding of       *)
(* IEEE doubles is not modelled.                                           *)
(*                                                                         *)
(* Text.  Column names and tipo are sequences of one-character strings, so *)
(* that splitting at the first underscore and integer parsing are computed *)
(* as the code computes them.  Municipality names are plain strings.       *)
(***************************************************************************)
EXTENDS Integers, Sequences, FiniteSets, TLC

VARIABLES
    pc,              \* position of the script run
    file_df_final,   \* the uploaded file (st.sidebar.file_uploader), or SemArquivo
    df_final,        \* the wide table returned by load_df_final
    df_long,         \* the long table returned by preparar_df_long
    erro,            \* the message shown by st.error, "" when none
    avaliadas,       \* the sections whose guard has been evaluated in this run
    saida            \* what the most recently evaluated section put on the page

vars == <<pc, file_df_final, df_final, df_long, erro, avaliadas, saida>>

----------------------------------------------------------------------------
(* Bounds of the model *)

MaxRows == 2

----------------------------------------------------------------------------
(* Exact arithmetic on floats-with-NaN *)

Abs(n) == IF n < 0 THEN -n ELSE n

RECURSIVE GCD(_, _)
GCD(a, b) == IF b = 0 THEN a ELSE GCD(b, a % b)

NaN == [na |-> TRUE, num |-> 0, den |-> 1]

Frac(n, d) ==
    LET g == GCD(Abs(n), Abs(d))
        s == IF d < 0 THEN -1 ELSE 1
    IN  [na |-> FALSE, num |-> s * (n \div g), den |-> s * (d \div g)]

Num(n) == [na |-> FALSE, num |-> n, den |-> 1]

isna(x) == x.na

\* Comparisons follow IEEE: any comparison with NaN is false.
FEq(a, b) == ~a.na /\ ~b.na /\ a.num * b.den = b.num * a.den
FLt(a, b) == ~a.na /\ ~b.na /\ a.num * b.den < b.num * a.den
FGt(a, b) == FLt(b, a)
FLe(a, b) == ~a.na /\ ~b.na /\ a.num * b.den <= b.num * a.den

FAdd(a, b) ==
    IF a.na \/ b.na THEN NaN
    ELSE Frac(a.num * b.den + b.num * a.den, a.den * b.den)

FSub(a, b) ==
    IF a.na \/ b.na THEN NaN
    ELSE Frac(a.num * b.den - b.num * a.den, a.den * b.den)

FMul(a, b) ==
    IF a.na \/ b.na THEN NaN ELSE Frac(a.num * b.num, a.den * b.den)

\* Division by zero does not occur where the code divides: the callers
\* test the divisor first.
FDiv(a, b) ==
    IF a.na \/ b.na \/ b.num = 0 THEN NaN
    ELSE Frac(a.num * b.den, a.den * b.num)

----------------------------------------------------------------------------
(* Sequences *)

Range(s) == {s[i] : i \in DOMAIN s}

\* a function over 1..n as the tuple of its values
Mat(f) == f \o <<>>

RECURSIVE SetAsSeq(_)
\* the elements of a finite set, in some fixed order
SetAsSeq(S) ==
    IF S = {} THEN <<>>
    ELSE LET x == CHOOSE y \in S : TRUE IN <<x>> \o SetAsSeq(S \ {x})

Reverse(s) == Mat([i \in 1..Len(s) |-> s[Len(s) + 1 - i]])

Head_n(s, n) == SubSeq(s, 1, IF n < Len(s) THEN n ELSE Len(s))

Tail_n(s, n) == SubSeq(s, IF Len(s) > n THEN Len(s) - n + 1 ELSE 1, Len(s))

----------------------------------------------------------------------------
(* NaN-skipping reductions of a pandas Series (a sequence of floats) *)

notna(s) == SelectSeq(s, LAMBDA x : ~x.na)

RECURSIVE SSum(_)
SSum(s) == IF s = <<>> THEN Num(0) ELSE FAdd(Head(s), SSum(Tail(s)))

RECURSIVE SMinOf(_)
SMinOf(s) ==
    IF Len(s) = 1 THEN s[1]
    ELSE LET r == SMinOf(Tail(s)) IN IF FLt(s[1], r) THEN s[1] ELSE r

RECURSIVE SMaxOf(_)
SMaxOf(s) ==
    IF Len(s) = 1 THEN s[1]
    ELSE LET r == SMaxOf(Tail(s)) IN IF FGt(s[1], r) THEN s[1] ELSE r

\* Series.min() / Series.max(): skipna, NaN for an all-missing series
s_min(s) == LET v == notna(s) IN IF v = <<>> THEN NaN ELSE SMinOf(v)
s_max(s) == LET v == notna(s) IN IF v = <<>> THEN NaN ELSE SMaxOf(v)

\* Series.mean(): skipna, NaN for an all-missing series
s_mean(s) ==
    LET v == notna(s)
    IN  IF v = <<>> THEN NaN ELSE FDiv(SSum(v), Num(Len(v)))

\* Series.var() with ddof = 1 over the non-missing values: NaN with fewer
\* than two of them.  Series.std() is its square root, so that std is NaN
\* exactly when the variance is, and zero exactly when the variance is.
s_var(s) ==
    LET v  == notna(s)
        m  == s_mean(s)
        sq == Mat([i \in 1..Len(v) |-> FMul(FSub(v[i], m), FSub(v[i], m))])
    IN  IF Len(v) < 2 THEN NaN ELSE FDiv(SSum(sq), Num(Len(v) - 1))

----------------------------------------------------------------------------
(* Text: column names are sequences of one-character strings *)

Digitos == <<"0", "1", "2", "3", "4", "5", "6", "7", "8", "9">>

IsDigit(c) == \E i \in DOMAIN Digitos : Digitos[i] = c

DigitVal(c) == (CHOOSE i \in DOMAIN Digitos : Digitos[i] = c) - 1

RECURSIVE DigitsValue(_)
\* the base-10 value of a non-empty sequence of digits
DigitsValue(d) ==
    IF Len(d) = 1 THEN DigitVal(d[1])
    ELSE 10 * DigitsValue(SubSeq(d, 1, Len(d) - 1)) + DigitVal(d[Len(d)])

\* Python's int(str), as Series.astype(int) applies it to each year token:
\* an optional sign, then one or more digits (leading zeros allowed);
\* anything else raises ValueError.  [ok, val]
py_int(tok) ==
    LET signed == Len(tok) >= 1 /\ tok[1] \in {"+", "-"}
        digs   == IF signed THEN Tail(tok) ELSE tok
        valid  == Len(digs) >= 1 /\ \A i \in DOMAIN digs : IsDigit(digs[i])
    IN  IF ~valid THEN [ok |-> FALSE, val |-> 0]
        ELSE [ok |-> TRUE,
              val |-> IF signed /\ tok[1] = "-" THEN -DigitsValue(digs)
                      ELSE DigitsValue(digs)]

\* the missing tipo of a column name that has no underscore (None)
SemTipo == <<"None">>

\* str.split("_") without n=1, the first two parts kept: the tipo is cut
\* at its own first underscore
str_split_sem_limite(name) ==
    LET us == {i \in DOMAIN name : name[i] = "_"}
    IN  IF us = {} THEN <<name>>
        ELSE LET p == CHOOSE i \in us : \A j \in us : i <= j
                 q == IF \E j \in us : j > p
                      THEN (CHOOSE i \in us : i > p /\ \A j \in us : j > p => i <= j)
                      ELSE Len(name) + 1
             IN  <<SubSeq(name, 1, p - 1), SubSeq(name, p + 1, q - 1)>>

\* str.split("_", n=1): the parts of a column name, split at its first
\* underscore only; one part when there is none
str_split(name) ==
    LET us == {i \in DOMAIN name : name[i] = "_"}
    IN  IF us = {} THEN <<name>>
        ELSE LET p == CHOOSE i \in us : \A j \in us : i <= j
             IN  <<SubSeq(name, 1, p - 1), SubSeq(name, p + 1, Len(name))>>

----------------------------------------------------------------------------
(* The wide table.  idcol is the name of its key column, colunas the names *)
(* of its other columns, and each of linhas holds the key (id) and one     *)
(* cell per column.  A cell is a number, a missing value or a text that    *)
(* is not a number.                                                        *)

CelNum(n) == [k |-> "num", v |-> n]
CelNaN == [k |-> "nan", v |-> 0]
CelTxt == [k |-> "txt", v |-> 0]

\* the name of the key column (written without its accent here)
ColMunicipio == "Municipio"

\* to_numeric followed by fillna(0)
to_numeric_fillna(c) == IF c.k = "num" THEN Num(c.v) ELSE Num(0)

\* pd.to_numeric(errors="coerce") of one cell
to_numeric(c) == IF c.k = "num" THEN Num(c.v) ELSE NaN

\* melt followed by a dropna(): the rows of missing cells are lost
melt_dropna(df) ==
    LET R == Len(df.linhas)
        N == Len(df.colunas)
        m == Mat([k \in 1..(N * R) |->
                LET c == ((k - 1) \div R) + 1
                    r == ((k - 1) % R) + 1
                IN  [Municipio    |-> df.linhas[r].id,
                     ano_variavel |-> df.colunas[c],
                     valor        |-> df.linhas[r].celulas[c]]])
    IN  SelectSeq(m, LAMBDA x : x.valor.k # "nan")

\* df.melt(id_vars="Município", value_vars=value_cols, ...): column by
\* column, and within a column row by row
melt(df) ==
    LET R == Len(df.linhas)
        N == Len(df.colunas)
    IN  Mat([k \in 1..(N * R) |->
            LET c == ((k - 1) \div R) + 1
                r == ((k - 1) % R) + 1
            IN  [Municipio    |-> df.linhas[r].id,
                 ano_variavel |-> df.colunas[c],
                 valor        |-> df.linhas[r].celulas[c]]])

----------------------------------------------------------------------------
(* Normalisation per tipo *)

ZNaN == [na |-> TRUE, num |-> 0, den |-> 1, vnum |-> 1, vden |-> 1]
ZZero == [na |-> FALSE, num |-> 0, den |-> 1, vnum |-> 1, vden |-> 1]

\* _minmax with the numerator's "- mn" forgotten
_minmax_sem_subtrair(s) ==
    LET mn == s_min(s)
        mx == s_max(s)
    IN  IF isna(mn) \/ isna(mx) \/ FEq(mx, mn)
        THEN Mat([i \in DOMAIN s |-> Num(0)])
        ELSE Mat([i \in DOMAIN s |-> FDiv(s[i], FSub(mx, mn))])

\* _minmax(s) of one group: the series of the group's valor, in row order
_minmax(s) ==
    LET mn == s_min(s)
        mx == s_max(s)
    IN  IF isna(mn) \/ isna(mx) \/ FEq(mx, mn)
        THEN Mat([i \in DOMAIN s |-> Num(0)])
        ELSE Mat([i \in DOMAIN s |-> FDiv(FSub(s[i], mn), FSub(mx, mn))])

\* _zscore with the missing values counted as zeros in the mean
\* (s.fillna(0).mean())
_zscore_fillna(s) ==
    LET m  == IF s = <<>> THEN NaN
              ELSE FDiv(SSum(notna(s)), Num(Len(s)))
        vr == s_var(s)
    IN  IF isna(m) \/ isna(vr) \/ vr.num = 0
        THEN Mat([i \in DOMAIN s |-> ZZero])
        ELSE Mat([i \in DOMAIN s |->
                LET d == FSub(s[i], m)
                IN  IF d.na THEN ZNaN
                    ELSE [na |-> FALSE, num |-> d.num, den |-> d.den,
                          vnum |-> vr.num, vden |-> vr.den]])

\* _zscore(s) of one group; (s - m) / std is kept as the deviation s - m
\* and the variance std^2
_zscore(s) ==
    LET m  == s_mean(s)
        vr == s_var(s)
    IN  IF isna(m) \/ isna(vr) \/ vr.num = 0
        THEN Mat([i \in DOMAIN s |-> ZZero])
        ELSE Mat([i \in DOMAIN s |->
                LET d == FSub(s[i], m)
                IN  IF d.na THEN ZNaN
                    ELSE [na |-> FALSE, num |-> d.num, den |-> d.den,
                          vnum |-> vr.num, vden |-> vr.den]])

\* df_long.groupby("tipo")["valor"].transform(f): f applied to each group,
\* the results put back at the rows of the group; a row whose tipo is
\* missing belongs to no group and gets a missing value.
\* which = "minmax" or "zscore".
groupby_tipo_transform(dl, which) ==
    LET tipos == SetAsSeq({dl[i].tipo : i \in DOMAIN dl} \ {SemTipo})
        serie(t) == LET g == SelectSeq(dl, LAMBDA r : r.tipo = t)
                    IN  Mat([i \in DOMAIN g |-> g[i].valor])
        res == Mat([k \in DOMAIN tipos |->
                  IF which = "minmax" THEN _minmax(serie(tipos[k]))
                  ELSE _zscore(serie(tipos[k]))])
        grp(t) == CHOOSE k \in DOMAIN tipos : tipos[k] = t
        pos(i) == Cardinality({j \in 1..i : dl[j].tipo = dl[i].tipo})
    IN  Mat([i \in DOMAIN dl |->
            IF dl[i].tipo = SemTipo
            THEN (IF which = "minmax" THEN NaN ELSE ZNaN)
            ELSE res[grp(dl[i].tipo)][pos(i)]])

----------------------------------------------------------------------------
(* preparar_df_long: [ok, erro, df_long] *)

Raise(msg) == [ok |-> FALSE, erro |-> msg, df_long |-> <<>>]

preparar_df_long(df) ==
    IF df.idcol # ColMunicipio
    THEN Raise("ValueError: Coluna 'Municipio' nao encontrada em df_final.parquet.")
    ELSE
    LET m0     == melt(df)
        partes == Mat([i \in DOMAIN m0 |-> str_split(m0[i].ano_variavel)])
        \* expand=True: as many columns as the longest split
        largura == IF \E i \in DOMAIN m0 : Len(partes[i]) = 2 THEN 2
                   ELSE IF m0 # <<>> THEN 1 ELSE 0
        anos   == Mat([i \in DOMAIN m0 |-> py_int(partes[i][1])])
    IN  IF largura # 2
        THEN Raise("ValueError: Columns must be same length as key")
        ELSE IF \E i \in DOMAIN m0 : ~anos[i].ok
        THEN Raise("ValueError: invalid literal for int() with base 10")
        ELSE
        LET m1 == Mat([i \in DOMAIN m0 |->
                     [Municipio    |-> m0[i].Municipio,
                      ano_variavel |-> m0[i].ano_variavel,
                      valor        |-> to_numeric(m0[i].valor),
                      ano          |-> anos[i].val,
                      tipo         |-> IF Len(partes[i]) = 2 THEN partes[i][2]
                                       ELSE SemTipo]])
            mm == groupby_tipo_transform(m1, "minmax")
            zs == groupby_tipo_transform(m1, "zscore")
        IN  [ok |-> TRUE, erro |-> "",
             df_long |->
                Mat([i \in DOMAIN m1 |->
                    [Municipio         |-> m1[i].Municipio,
                     ano_variavel      |-> m1[i].ano_variavel,
                     valor             |-> m1[i].valor,
                     ano               |-> m1[i].ano,
                     tipo              |-> m1[i].tipo,
                     valor_minmax_tipo |-> mm[i],
                     valor_zscore_tipo |-> zs[i]]])]

----------------------------------------------------------------------------
(* Sorting and grouping as pandas does them *)

\* the municipality names of the model, in ascending (code point) order
Municipios == <<"A", "B">>

MunIdx(m) == CHOOSE i \in DOMAIN Municipios : Municipios[i] = m

RECURSIVE SortSet(_, _)
\* the elements of a finite set, ascending by the integer key f[x]
SortSet(S, f) ==
    IF S = {} THEN <<>>
    ELSE LET x == CHOOSE y \in S : \A z \in S : f[y] <= f[z]
         IN  <<x>> \o SortSet(S \ {x}, f)

RECURSIVE StableArgsort(_, _)
\* the indices idx (a sequence) ordered by ascending keys[i], equal keys
\* staying in the order they have in idx (insertion sort)
StableArgsort(keys, idx) ==
    IF idx = <<>> THEN <<>>
    ELSE LET rest == StableArgsort(keys, SubSeq(idx, 1, Len(idx) - 1))
             x    == idx[Len(idx)]
             le   == SelectSeq(rest, LAMBDA j : FLe(keys[j], keys[x]))
             gt   == SelectSeq(rest, LAMBDA j : ~FLe(keys[j], keys[x]))
         IN  le \o <<x>> \o gt

\* nargsort that ignores "ascending": always ascending
nargsort_ascendente(keys, ascending) ==
    LET all  == Mat([i \in DOMAIN keys |-> i])
        nn   == SelectSeq(all, LAMBDA i : ~keys[i].na)
        nans == SelectSeq(all, LAMBDA i : keys[i].na)
    IN  StableArgsort(keys, nn) \o nans

\* pandas nargsort(keys, ascending, na_position="last"), as sort_values
\* uses it: the missing keys go last in their original order; for a
\* descending sort the non-missing keys are reversed, sorted ascending and
\* reversed again.  The permutation, as a sequence of indices of keys.
nargsort(keys, ascending) ==
    LET all  == Mat([i \in DOMAIN keys |-> i])
        nn   == SelectSeq(all, LAMBDA i : ~keys[i].na)
        nans == SelectSeq(all, LAMBDA i : keys[i].na)
    IN  IF ascending THEN StableArgsort(keys, nn) \o nans
        ELSE Reverse(StableArgsort(keys, Reverse(nn))) \o nans

\* df.sort_values(by=col, ascending=...) of a sequence of rows, keys[i]
\* being row i's value in the column
sort_values(rows, keys, ascending) ==
    LET ix == nargsort(keys, ascending) IN Mat([i \in DOMAIN ix |-> rows[ix[i]]])

\* rows.groupby("Município")[col].mean(): one entry per municipality that
\* occurs in rows, in ascending order of name, with the mean of its
\* non-missing values (NaN when it has none).  col = "valor" here.
groupby_municipio_mean(rows) ==
    LET ms   == {rows[i].Municipio : i \in DOMAIN rows}
        keys == SortSet(ms, [m \in ms |-> MunIdx(m)])
        vals(m) == LET g == SelectSeq(rows, LAMBDA r : r.Municipio = m)
                   IN  Mat([i \in DOMAIN g |-> g[i].valor])
    IN  Mat([i \in DOMAIN keys |->
               [Municipio |-> keys[i], media |-> s_mean(vals(keys[i]))]])

\* rows.groupby("ano")["valor"].mean(): one entry per year that occurs in
\* rows, in ascending order of year
groupby_ano_mean(rows) ==
    LET ys   == {rows[i].ano : i \in DOMAIN rows}
        keys == SortSet(ys, [y \in ys |-> y])
        vals(y) == LET g == SelectSeq(rows, LAMBDA r : r.ano = y)
                   IN  Mat([i \in DOMAIN g |-> g[i].valor])
    IN  Mat([i \in DOMAIN keys |->
               [ano |-> keys[i], media |-> s_mean(vals(keys[i]))]])

\* the number of non-missing values: s.notna().sum()
notna_sum(s) == Len(notna(s))

----------------------------------------------------------------------------
(* The script below the preparation: unique values and the four sections *)

tipos_disponiveis(dl) == {dl[i].tipo : i \in DOMAIN dl}
municipios_disponiveis(dl) == {dl[i].Municipio : i \in DOMAIN dl}
anos_disponiveis(dl) == {dl[i].ano : i \in DOMAIN dl}

\* the options of the scale selectbox and the column each one plots
Escalas == {"Valor original", "Min-Max por tipo (0-1)", "Z-score por tipo"}

col_valor(escala) ==
    IF escala = "Min-Max por tipo (0-1)" THEN "valor_minmax_tipo"
    ELSE IF escala = "Z-score por tipo" THEN "valor_zscore_tipo"
    ELSE "valor"

\* row[col] for the three value columns
Col(r, col) ==
    IF col = "valor_minmax_tipo" THEN r.valor_minmax_tipo
    ELSE IF col = "valor_zscore_tipo" THEN r.valor_zscore_tipo
    ELSE r.valor

Coluna(rows, col) == Mat([i \in DOMAIN rows |-> Col(rows[i], col)])

\* the slider "Quantidade de municípios (Top N)"
TopNMin == 3
TopNDefault == 10
TopNMax == 30

SemSaida == [secao |-> 0, aviso |-> FALSE, grafico |-> FALSE, resumo |-> FALSE]

\* valor_ini > valor_fim * 1.05 / valor_ini < valor_fim * 0.95, else stable
tendencia_de(valor_ini, valor_fim) ==
    IF FGt(valor_ini, FMul(valor_fim, Frac(105, 100))) THEN "crescimento"
    ELSE IF FLt(valor_ini, FMul(valor_fim, Frac(95, 100))) THEN "queda"
    ELSE "estavel"

\* media_ano = df_tipo.groupby("ano")["valor"].mean().sort_values()
media_ano_de(df_tipo) ==
    LET g == groupby_ano_mean(df_tipo)
    IN  sort_values(g, Mat([i \in DOMAIN g |-> g[i].media]), TRUE)

\* rank_media = df_tipo.groupby("Município")["valor"].mean()
\*                     .sort_values(ascending=False)
rank_media_de(df_tipo) ==
    LET g == groupby_municipio_mean(df_tipo)
    IN  sort_values(g, Mat([i \in DOMAIN g |-> g[i].media]), FALSE)

\* Section 1: time series of one tipo, its ranking and its trend
secao1(dl, tipo_escolhido, limitar_municipios, top_n) ==
    LET df_tipo == SelectSeq(dl, LAMBDA r : r.tipo = tipo_escolhido)
    IN  IF notna_sum(Coluna(df_tipo, "valor")) = 0
        THEN [secao |-> 1, tipo |-> tipo_escolhido,
              aviso |-> TRUE, grafico |-> FALSE, resumo |-> FALSE]
        ELSE
        LET rank_media == rank_media_de(df_tipo)
            top_muns   == IF limitar_municipios
                          THEN Head_n(Mat([i \in DOMAIN rank_media |-> rank_media[i].Municipio]), top_n)
                          ELSE <<>>
            df_plot_tipo == IF limitar_municipios
                            THEN SelectSeq(df_tipo, LAMBDA r : r.Municipio \in Range(top_muns))
                            ELSE df_tipo
            top3      == Head_n(rank_media, 3)
            media_ano == media_ano_de(df_tipo)
            n         == Len(media_ano)
        IN  [secao |-> 1, tipo |-> tipo_escolhido,
             aviso |-> FALSE, grafico |-> TRUE, resumo |-> TRUE,
             limitar_municipios |-> limitar_municipios,
             rank_media |-> rank_media,
             top_muns |-> top_muns,
             plot_muns |-> {df_plot_tipo[i].Municipio : i \in DOMAIN df_plot_tipo},
             top3 |-> top3,
             media_ano |-> media_ano,
             tendencia |-> IF n >= 2
                           THEN tendencia_de(media_ano[1].media, media_ano[n].media)
                           ELSE "sem_dados"]

\* Section 2: one municipality, several tipos, in a chosen scale
secao2(dl, municipio_escolhido, tipos_selecionados, escala_sec2) ==
    LET col_valor_sec2 == col_valor(escala_sec2)
        df_city == SelectSeq(dl, LAMBDA r : r.Municipio = municipio_escolhido
                                            /\ r.tipo \in tipos_selecionados)
        vazio == df_city = <<>> \/ notna_sum(Coluna(df_city, col_valor_sec2)) = 0
    IN  [secao |-> 2, municipio |-> municipio_escolhido,
         tipos |-> tipos_selecionados, col |-> col_valor_sec2,
         aviso |-> vazio, grafico |-> ~vazio, resumo |-> ~vazio]

\* Section 3: ranking of the municipalities for one tipo and one year.
\* The summary reads top3_rank.iloc[2] whenever len(top3_rank) >= 2, which
\* raises IndexError when the ranking has exactly two rows: the chart is
\* already on the page, the summary is not, and the script run ends.
secao3(dl, tipo_rank, ano_rank) ==
    LET df_rank == SelectSeq(dl, LAMBDA r : r.tipo = tipo_rank /\ r.ano = ano_rank)
    IN  IF df_rank = <<>> \/ notna_sum(Coluna(df_rank, "valor")) = 0
        THEN [secao |-> 3, tipo |-> tipo_rank, ano |-> ano_rank,
              aviso |-> TRUE, grafico |-> FALSE, resumo |-> FALSE,
              excecao |-> FALSE, df_rank_sorted |-> <<>>]
        ELSE
        LET df_rank_sorted == sort_values(df_rank, Coluna(df_rank, "valor"), FALSE)
            top3_rank      == Head_n(df_rank_sorted, 3)
            IndexError     == Len(top3_rank) >= 2 /\ Len(top3_rank) < 3
        IN  [secao |-> 3, tipo |-> tipo_rank, ano |-> ano_rank,
             aviso |-> FALSE, grafico |-> TRUE, resumo |-> ~IndexError,
             excecao |-> IndexError, df_rank_sorted |-> df_rank_sorted]

\* A value of one of the three value columns as (num/den) / sqrt(vnum/vden):
\* valor and valor_minmax_tipo have the divisor 1
ComoZ(x) ==
    IF "vnum" \in DOMAIN x THEN x
    ELSE [na |-> x.na, num |-> x.num, den |-> x.den, vnum |-> 1, vden |-> 1]

\* a <= b for two such non-missing values: by sign, then by squares
ZLe(a, b) ==
    IF a.num <= 0 /\ b.num >= 0 THEN TRUE
    ELSE IF a.num >= 0 /\ b.num <= 0 THEN FALSE
    ELSE LET qa == a.num * a.num * a.vden * b.den * b.den * b.vnum
             qb == b.num * b.num * b.vden * a.den * a.den * a.vnum
         IN  IF a.num > 0 THEN qa <= qb ELSE qb <= qa

\* s.mean() of the values of one series: they are of one tipo, so the
\* non-missing ones share one divisor
z_mean(s) ==
    LET nn == notna(s)
        m  == s_mean(Mat([i \in DOMAIN nn |-> Frac(nn[i].num, nn[i].den)]))
    IN  IF nn = <<>> THEN ZNaN
        ELSE [na |-> FALSE, num |-> m.num, den |-> m.den,
              vnum |-> nn[1].vnum, vden |-> nn[1].vden]

\* a - b, kept as its two operands; NaN when one of them is
z_sub(a, b) == [na |-> a.na \/ b.na, de |-> a, menos |-> b]

RECURSIVE StableArgsortZ(_, _)
\* StableArgsort for keys compared by ZLe
StableArgsortZ(keys, idx) ==
    IF idx = <<>> THEN <<>>
    ELSE LET rest == StableArgsortZ(keys, SubSeq(idx, 1, Len(idx) - 1))
             x    == idx[Len(idx)]
             le   == SelectSeq(rest, LAMBDA j : ZLe(keys[j], keys[x]))
             gt   == SelectSeq(rest, LAMBDA j : ~ZLe(keys[j], keys[x]))
         IN  le \o <<x>> \o gt

\* Series.sort_values(ascending=False): nargsort on the means, the missing
\* means last
sort_values_desc_z(rows, keys) ==
    LET all  == Mat([i \in DOMAIN keys |-> i])
        nn   == SelectSeq(all, LAMBDA i : ~keys[i].na)
        nans == SelectSeq(all, LAMBDA i : keys[i].na)
        ix   == Reverse(StableArgsortZ(keys, Reverse(nn))) \o nans
    IN  Mat([i \in DOMAIN ix |-> rows[ix[i]]])

\* the code point of a character of the names in use ("-" stands for the
\* en dash of the series key)
Ord(c) ==
    CASE c = " " -> 32
      [] c \in Range(Digitos) -> 48 + DigitVal(c)
      [] c = "A" -> 65
      [] c = "B" -> 66
      [] c = "_" -> 95
      [] c = "c" -> 99
      [] c = "g" -> 103
      [] c = "x" -> 120
      [] OTHER -> 8211

RECURSIVE StrLt(_, _)
\* a < b for two strings, as Python compares them
StrLt(a, b) ==
    IF b = <<>> THEN FALSE
    ELSE IF a = <<>> THEN TRUE
    ELSE IF Head(a) # Head(b) THEN Ord(Head(a)) < Ord(Head(b))
    ELSE StrLt(Tail(a), Tail(b))

RECURSIVE SortStrs(_)
\* the strings of a finite set in ascending order
SortStrs(S) ==
    IF S = {} THEN <<>>
    ELSE LET x == CHOOSE y \in S : \A z \in S \ {y} : StrLt(y, z)
         IN  <<x>> \o SortStrs(S \ {x})

\* df_comp["Município"] + " – " + df_comp["tipo"]
serie_de(r) == <<r.Municipio>> \o <<" ", "-", " ">> \o r.tipo

\* rows.groupby("serie")[col].mean(): one entry per series that occurs in
\* rows, in ascending order of the key
groupby_serie_mean(rows, col) ==
    LET ss   == {rows[i].serie : i \in DOMAIN rows}
        keys == SortStrs(ss)
        vals(k) == LET g == SelectSeq(rows, LAMBDA r : r.serie = k)
                   IN  Mat([i \in DOMAIN g |-> ComoZ(Col(g[i], col))])
    IN  Mat([i \in DOMAIN keys |->
               [serie |-> keys[i], media |-> z_mean(vals(keys[i]))]])

\* the largest year of a non-empty sequence of rows: df["ano"].max()
ano_max(rows) ==
    CHOOSE y \in {rows[i].ano : i \in DOMAIN rows} :
        \A i \in DOMAIN rows : rows[i].ano <= y

\* Section 4: several municipalities and tipos, in a chosen scale
secao4(dl, tipos_sel4, cidades_sel4, escala_sec4) ==
    LET col_valor_sec4 == col_valor(escala_sec4)
        df_comp0 == SelectSeq(dl, LAMBDA r : r.tipo \in tipos_sel4
                                             /\ r.Municipio \in cidades_sel4)
        vazio == df_comp0 = <<>> \/ notna_sum(Coluna(df_comp0, col_valor_sec4)) = 0
    IN  IF vazio
        THEN [secao |-> 4, tipos |-> tipos_sel4, cidades |-> cidades_sel4,
              col |-> col_valor_sec4,
              aviso |-> TRUE, grafico |-> FALSE, resumo |-> FALSE]
        ELSE
        LET df_comp == Mat([i \in DOMAIN df_comp0 |->
                              [Municipio |-> df_comp0[i].Municipio,
                               tipo      |-> df_comp0[i].tipo,
                               ano       |-> df_comp0[i].ano,
                               valor     |-> df_comp0[i].valor,
                               valor_minmax_tipo |-> df_comp0[i].valor_minmax_tipo,
                               valor_zscore_tipo |-> df_comp0[i].valor_zscore_tipo,
                               serie     |-> serie_de(df_comp0[i])]])
            ano_final4 == ano_max(df_comp)
            df_final4  == SelectSeq(df_comp, LAMBDA r : r.ano = ano_final4)
            g          == groupby_serie_mean(df_final4, col_valor_sec4)
            resumo4    == sort_values_desc_z(g, Mat([i \in DOMAIN g |-> g[i].media]))
            tem_low    == Len(resumo4) > 1
            valor_top  == resumo4[1].media
            valor_low  == resumo4[Len(resumo4)].media
        IN  [secao |-> 4, tipos |-> tipos_sel4, cidades |-> cidades_sel4,
             col |-> col_valor_sec4,
             aviso |-> FALSE, grafico |-> TRUE, resumo |-> TRUE,
             df_comp |-> df_comp, ano_final4 |-> ano_final4,
             resumo4 |-> resumo4,
             serie_top |-> resumo4[1].serie, valor_top |-> valor_top,
             tem_low |-> tem_low,
             serie_low |-> IF tem_low THEN resumo4[Len(resumo4)].serie ELSE <<>>,
             valor_low |-> IF tem_low THEN valor_low ELSE ZNaN,
             diff4 |-> IF tem_low THEN z_sub(valor_top, valor_low)
                       ELSE z_sub(ZNaN, ZNaN)]

----------------------------------------------------------------------------
(* The script run *)

\* file_uploader returned None
SemArquivo == [idcol |-> "None", colunas |-> <<>>, linhas |-> <<>>]

TabelaVazia == [idcol |-> "", colunas |-> <<>>, linhas |-> <<>>]

\* load_df_final(file): pd.read_parquet, the table as it is in the file
load_df_final(file) == file

\* the handler without its st.stop(): the error is shown and the script
\* goes on to the sections
try_preparar_sem_stop(df) ==
    LET r == preparar_df_long(df)
    IN  IF ~r.ok
        THEN [pc |-> "sec2", erro |-> "Erro ao preparar df_long: " \o r.erro,
              df_long |-> <<>>]
        ELSE [pc |-> "sec1", erro |-> "", df_long |-> r.df_long]

\* try: df_long = preparar_df_long(df_final)
\* except Exception as e: st.error(...); st.stop()
\* followed, when nothing was raised, by the unique values: sorted() of the
\* tipos raises TypeError when a missing tipo (None) stands among strings.
try_preparar(df) ==
    LET r == preparar_df_long(df)
    IN  IF ~r.ok
        THEN [pc |-> "stop", erro |-> "Erro ao preparar df_long: " \o r.erro,
              df_long |-> <<>>]
        ELSE [pc |-> IF SemTipo \in tipos_disponiveis(r.df_long)
                     THEN "excecao" ELSE "sec1",
              erro |-> "", df_long |-> r.df_long]

\* lines 113-123: without a file the script warns and stops
Carregar ==
    /\ pc = "upload"
    /\ IF file_df_final = SemArquivo
       THEN /\ pc' = "stop"
            /\ saida' = [SemSaida EXCEPT !.aviso = TRUE]
            /\ UNCHANGED df_final
       ELSE /\ pc' = "preparar"
            /\ df_final' = load_df_final(file_df_final)
            /\ UNCHANGED saida
    /\ UNCHANGED <<file_df_final, df_long, erro, avaliadas>>

\* lines 125-136
Preparar ==
    /\ pc = "preparar"
    /\ LET r == try_preparar(df_final)
       IN  /\ pc' = r.pc
           /\ erro' = r.erro
           /\ df_long' = r.df_long
    /\ UNCHANGED <<file_df_final, df_final, avaliadas, saida>>

\* lines 139-259
Secao1 ==
    /\ pc = "sec1"
    /\ \E tipo_escolhido \in tipos_disponiveis(df_long),
          limitar_municipios \in BOOLEAN,
          top_n \in {TopNMin, TopNDefault, TopNMax} :
          saida' = secao1(df_long, tipo_escolhido, limitar_municipios, top_n)
    /\ avaliadas' = avaliadas \cup {1}
    /\ pc' = "sec2"
    /\ UNCHANGED <<file_df_final, df_final, df_long, erro>>

\* lines 261-389
Secao2 ==
    /\ pc = "sec2"
    /\ \E municipio_escolhido \in municipios_disponiveis(df_long),
          tipos_selecionados \in SUBSET tipos_disponiveis(df_long),
          escala_sec2 \in Escalas :
          saida' = secao2(df_long, municipio_escolhido, tipos_selecionados, escala_sec2)
    /\ avaliadas' = avaliadas \cup {2}
    /\ pc' = "sec3"
    /\ UNCHANGED <<file_df_final, df_final, df_long, erro>>

\* lines 391-481
Secao3 ==
    /\ pc = "sec3"
    /\ \E tipo_rank \in tipos_disponiveis(df_long),
          ano_rank \in anos_disponiveis(df_long) :
          saida' = secao3(df_long, tipo_rank, ano_rank)
    /\ avaliadas' = avaliadas \cup {3}
    /\ pc' = IF saida'.excecao THEN "excecao" ELSE "sec4"
    /\ UNCHANGED <<file_df_final, df_final, df_long, erro>>

\* lines 483-606
Secao4 ==
    /\ pc = "sec4"
    /\ \E tipos_sel4 \in SUBSET tipos_disponiveis(df_long),
          cidades_sel4 \in SUBSET municipios_disponiveis(df_long),
          escala_sec4 \in Escalas :
          saida' = secao4(df_long, tipos_sel4, cidades_sel4, escala_sec4)
    /\ avaliadas' = avaliadas \cup {4}
    /\ pc' = "fim"
    /\ UNCHANGED <<file_df_final, df_final, df_long, erro>>

----------------------------------------------------------------------------
(* Inputs: the uploaded wide tables *)

\* column names
c1g   == <<"1", "_", "g">>
c2g   == <<"2", "_", "g">>
c1c   == <<"1", "_", "c">>
c01g  == <<"0", "1", "_", "g">>
c1g_c == <<"1", "_", "g", "_", "c">>
c2    == <<"2">>
cxg   == <<"x", "_", "g">>
c_g   == <<"_", "g">>

\* A family of tables: the names its key column may have, the column
\* names it may have and the cells it may hold.

\* the tables of the script runs: two years of one tipo, or two tipos of
\* one year; the same with negative values; and tables on which the
\* preparation fails
TabelasScript ==
    {[idcols  |-> {ColMunicipio},
      layouts |-> {<<c1g, c2g>>, <<c1g, c1c>>},
      cells   |-> {CelNaN, CelNum(94), CelNum(100)}],
     [idcols  |-> {ColMunicipio},
      layouts |-> {<<c1g, c2g>>},
      cells   |-> {CelNaN, CelNum(-100)}],
     [idcols  |-> {ColMunicipio, "Cidade"},
      layouts |-> {<<cxg>>, <<c1g>>},
      cells   |-> {CelNaN, CelNum(100)}]}

\* the tables of the preparation alone: also column names with a leading
\* zero, with a second underscore, without underscore, without year, and
\* cells that are text
TabelasPrep ==
    {[idcols  |-> {ColMunicipio},
      layouts |-> {<<c1g, c2g>>},
      cells   |-> {CelNaN, CelTxt, CelNum(1), CelNum(3)}],
     [idcols  |-> {ColMunicipio},
      layouts |-> {<<c1g, c01g>>, <<c1g_c, c1c>>, <<c1g, c2>>},
      cells   |-> {CelNaN, CelNum(1), CelNum(3)}],
     [idcols  |-> {ColMunicipio, "Cidade"},
      layouts |-> {<<c2>>, <<cxg>>, <<c_g>>, <<c1g>>},
      cells   |-> {CelNaN, CelNum(1)}]}

\* the file is missing, or holds a table of one of the families with one
\* to MaxRows rows; municipality names may repeat
InitCom(familias) ==
    /\ pc = "upload"
    /\ \/ file_df_final = SemArquivo
       \/ \E f \in familias :
            \E ic \in f.idcols, cs \in f.layouts, r \in 1..MaxRows :
              \E ls \in [1..r -> [id : Range(Municipios),
                                  celulas : [1..Len(cs) -> f.cells]]] :
                 file_df_final = [idcol |-> ic, colunas |-> cs, linhas |-> ls]
    /\ df_final = TabelaVazia
    /\ df_long = <<>>
    /\ erro = ""
    /\ avaliadas = {}
    /\ saida = SemSaida

Init == InitCom(TabelasScript)

Next == Carregar \/ Preparar \/ Secao1 \/ Secao2 \/ Secao3 \/ Secao4

Spec == Init /\ [][Next]_vars

InitPrep == InitCom(TabelasPrep)

NextPrep == Carregar \/ Preparar

SpecPrep == InitPrep /\ [][NextPrep]_vars

----------------------------------------------------------------------------
(* Properties of the long table (checked under SpecPrep) *)

\* the preparation returned a long table
Preparada == pc \notin {"upload", "preparar", "stop"}

\* the groups of groupby("tipo"): the rows of one non-missing tipo
Grupos == tipos_disponiveis(df_long) \ {SemTipo}

Grupo(t) == SelectSeq(df_long, LAMBDA r : r.tipo = t)

\* the non-missing valor of a sequence of rows
Validos(g) == notna(Mat([i \in DOMAIN g |-> g[i].valor]))

TodosIguais(v) == \A i, j \in DOMAIN v : FEq(v[i], v[j])

\* all valor missing, or all non-missing valor equal
MinMaxDegenerado(g) == TodosIguais(Validos(g))

EmZeroUm(x) == ~x.na /\ x.den > 0 /\ 0 <= x.num /\ x.num <= x.den

\* C1, as stated: in every group by tipo, every valor_minmax_tipo lies in
\* [0,1], rows of missing valor included, unless the group is degenerate
\* (all equal or all missing), where every row has exactly 0.0.
C1_Original ==
    \A t \in Grupos :
        LET g == Grupo(t)
        IN  IF MinMaxDegenerado(g)
            THEN \A i \in DOMAIN g : g[i].valor_minmax_tipo = Num(0)
            ELSE \A i \in DOMAIN g : EmZeroUm(g[i].valor_minmax_tipo)

\* C1, amended: in every group by tipo, a degenerate group (all non-missing
\* valor equal, or all missing) has valor_minmax_tipo exactly 0.0 in every
\* row, rows of missing valor included; in any other group the rows of
\* non-missing valor have valor_minmax_tipo in [0,1] and the rows of missing
\* valor have a missing valor_minmax_tipo.
C1_MinMax ==
    \A t \in Grupos :
        LET g == Grupo(t)
        IN  IF MinMaxDegenerado(g)
            THEN \A i \in DOMAIN g : g[i].valor_minmax_tipo = Num(0)
            ELSE \A i \in DOMAIN g :
                    IF g[i].valor.na THEN g[i].valor_minmax_tipo.na
                    ELSE EmZeroUm(g[i].valor_minmax_tipo)

\* a group that is not degenerate and has a row of missing valor
C1_Witness ==
    /\ Preparada
    /\ \E t \in Grupos :
          /\ ~MinMaxDegenerado(Grupo(t))
          /\ \E i \in DOMAIN Grupo(t) : Grupo(t)[i].valor.na

\* fewer than two non-missing valor (no standard deviation), or all equal
\* (standard deviation zero)
ZScoreDegenerado(g) == Len(Validos(g)) < 2 \/ TodosIguais(Validos(g))

\* the sum of the deviations (num/den) of a sequence of z-scores
SomaDesvios(z) == SSum(Mat([i \in DOMAIN z |-> Frac(z[i].num, z[i].den)]))

C3_Linhas ==
    Preparada =>
        LET R == Len(df_final.linhas)
            N == Len(df_final.colunas)
        IN  /\ Len(df_long) = N * R
            /\ \A c \in 1..N, r \in 1..R :
                  LET x == df_long[(c - 1) * R + r]
                      cel == df_final.linhas[r].celulas[c]
                  IN  /\ x.Municipio = df_final.linhas[r].id
                      /\ x.ano_variavel = df_final.colunas[c]
                      /\ x.valor = IF cel.k = "num" THEN Num(cel.v) ELSE NaN

\* a table of two columns whose rows repeat a municipality and hold a
\* missing cell and a text cell
C3_Witness ==
    /\ Preparada
    /\ Len(df_final.colunas) = 2
    /\ Len(df_final.linhas) = MaxRows
    /\ df_final.linhas[1].id = df_final.linhas[2].id
    /\ \E r \in DOMAIN df_final.linhas : df_final.linhas[r].celulas[1] = CelNaN
    /\ \E r \in DOMAIN df_final.linhas : df_final.linhas[r].celulas[2] = CelTxt

TemUnderscore(name) == \E p \in DOMAIN name : name[p] = "_"

\* the text before the first underscore of a name that has one
TokenAno(name) ==
    LET p == CHOOSE q \in DOMAIN name :
                name[q] = "_" /\ \A k \in 1..(q - 1) : name[k] # "_"
    IN  SubSeq(name, 1, p - 1)

\* row x of the long table holds the year and the tipo of its column name:
\* ano is the integer written before the first underscore, tipo all the
\* text after it
AnoTipoDoNome(x) ==
    LET C == x.ano_variavel
    IN  \E p \in DOMAIN C :
          /\ C[p] = "_"
          /\ \A k \in 1..(p - 1) : C[k] # "_"
          /\ py_int(SubSeq(C, 1, p - 1)).ok
          /\ x.ano = py_int(SubSeq(C, 1, p - 1)).val
          /\ x.tipo = SubSeq(C, p + 1, Len(C))

RECURSIVE NatStr(_)
\* the decimal digits of a natural number
NatStr(n) ==
    IF n < 10 THEN <<Digitos[n + 1]>> ELSE NatStr(n \div 10) \o <<Digitos[(n % 10) + 1]>>

\* Python's str(int)
py_str(n) == IF n < 0 THEN <<"-">> \o NatStr(-n) ELSE NatStr(n)

\* a column name "<ano>_<tipo>" whose year is written as str() writes it:
\* no "+", no leading zeros
NomeCanonico(name) ==
    /\ TemUnderscore(name)
    /\ py_int(TokenAno(name)).ok
    /\ py_str(py_int(TokenAno(name)).val) = TokenAno(name)

\* C4, as stated: every row (of a column name with an underscore) has
\* ano = the integer before the first underscore and tipo = the whole rest,
\* and (ano, tipo) determines the column name.
C4_Original ==
    /\ \A i \in DOMAIN df_long :
          TemUnderscore(df_long[i].ano_variavel) => AnoTipoDoNome(df_long[i])
    /\ \A i, j \in DOMAIN df_long :
          (df_long[i].ano = df_long[j].ano /\ df_long[i].tipo = df_long[j].tipo)
             => df_long[i].ano_variavel = df_long[j].ano_variavel

\* C4, amended: every row (of a column name with an underscore) has
\* ano = the integer before the first underscore and tipo = the whole rest
\* (further underscores stay in tipo); (ano, tipo) determines the column
\* name among the names whose year is written canonically (as str(int)
\* writes it): "1_g" and "01_g" give the same (ano, tipo).
C4_AnoTipo ==
    /\ \A i \in DOMAIN df_long :
          TemUnderscore(df_long[i].ano_variavel) => AnoTipoDoNome(df_long[i])
    /\ \A i, j \in DOMAIN df_long :
          (/\ NomeCanonico(df_long[i].ano_variavel)
           /\ NomeCanonico(df_long[j].ano_variavel)
           /\ df_long[i].ano = df_long[j].ano
           /\ df_long[i].tipo = df_long[j].tipo)
             => df_long[i].ano_variavel = df_long[j].ano_variavel

\* a long table with a tipo that holds an underscore, next to another
\* column of the same year
C4_Witness ==
    /\ Preparada
    /\ \E i, j \in DOMAIN df_long :
          /\ df_long[i].ano_variavel = c1g_c
          /\ df_long[i].tipo = <<"g", "_", "c">>
          /\ df_long[j].ano_variavel = c1c
          /\ df_long[j].ano = df_long[i].ano

\* the key "<ano>_<tipo>" of a row of the long table
Chave(x) == py_str(x.ano) \o <<"_">> \o x.tipo

\* the cell that holds a float
CelDe(v) == IF v.na THEN CelNaN ELSE CelNum(v.num)

\* Pivoting valor back by Município and key gives the wide table: the
\* pivot has one row per municipality, as many as the wide table has rows;
\* its columns are the wide table's column names; and each cell of the
\* wide table is the one valor the pivot has for that municipality and key.
Reproduz ==
    LET muns   == municipios_disponiveis(df_long)
        chaves == {Chave(df_long[i]) : i \in DOMAIN df_long}
        em(m, k) == {i \in DOMAIN df_long :
                        df_long[i].Municipio = m /\ Chave(df_long[i]) = k}
    IN  /\ Cardinality(muns) = Len(df_final.linhas)
        /\ chaves = Range(df_final.colunas)
        /\ \A r \in DOMAIN df_final.linhas, c \in DOMAIN df_final.colunas :
              LET is == em(df_final.linhas[r].id, df_final.colunas[c])
              IN  /\ Cardinality(is) = 1
                  /\ \A i \in is :
                        CelDe(df_long[i].valor) = df_final.linhas[r].celulas[c]

\* C5, as stated: for every accepted wide table, pivoting the long table
\* back reproduces it.
C5_Original == Preparada => Reproduz

NomesDistintos ==
    \A r, s \in DOMAIN df_final.linhas :
        df_final.linhas[r].id = df_final.linhas[s].id => r = s

CelulasNumericas ==
    \A r \in DOMAIN df_final.linhas, c \in DOMAIN df_final.colunas :
        df_final.linhas[r].celulas[c].k \in {"num", "nan"}

ColunasCanonicas ==
    \A c \in DOMAIN df_final.colunas : NomeCanonico(df_final.colunas[c])

\* C5, amended: for every accepted wide table whose municipality names are
\* distinct, whose cells are numbers or missing, and whose column names are
\* "<ano>_<tipo>" with the year written canonically, pivoting the long
\* table back reproduces it.
C5_RoundTrip ==
    (Preparada /\ NomesDistintos /\ CelulasNumericas /\ ColunasCanonicas)
        => Reproduz

\* such a table, with MaxRows rows, two columns and a missing cell
C5_Witness ==
    /\ Preparada /\ NomesDistintos /\ CelulasNumericas /\ ColunasCanonicas
    /\ Len(df_final.linhas) = MaxRows
    /\ Len(df_final.colunas) = 2
    /\ \E r \in DOMAIN df_final.linhas : df_final.linhas[r].celulas[2] = CelNaN
    /\ \E r \in DOMAIN df_final.linhas : df_final.linhas[r].celulas[1] = CelNum(3)

----------------------------------------------------------------------------
(* Properties of the script run (checked under Spec) *)

DoTipo(tp) == SelectSeq(df_long, LAMBDA r : r.tipo = tp)

\* the label the trend has when it is taken from the means of the
\* chronologically first and last year: "crescimento" when the first
\* exceeds the last by more than 5%, "queda" when the last exceeds the
\* first by more than 5%, else "estavel"
RotuloCronologico(tp) ==
    LET g == groupby_ano_mean(DoTipo(tp))
        primeiro == g[1].media
        ultimo   == g[Len(g)].media
    IN  IF FGt(primeiro, FMul(ultimo, Frac(105, 100))) THEN "crescimento"
        ELSE IF FGt(ultimo, FMul(primeiro, Frac(105, 100))) THEN "queda"
        ELSE "estavel"

\* C6, as stated: with at least two years for the chosen tipo, the trend
\* label of section 1 is the one computed from the means of the
\* chronologically first and last year.
C6_Claim ==
    (saida.secao = 1 /\ ~saida.aviso /\ Len(saida.media_ano) >= 2)
        => saida.tendencia = RotuloCronologico(saida.tipo)

\* the preparation of df_final fails for one of the two reasons: the key
\* column is not Município, or a column's year token is not an integer
FalhaDePreparo ==
    \/ df_final.idcol # ColMunicipio
    \/ \E c \in DOMAIN df_final.colunas :
          ~py_int(str_split(df_final.colunas[c])[1]).ok

\* C7: once the preparation has failed for one of the two reasons, an
\* error is on the page, the run has stopped, and no section was
\* evaluated: no warning, chart or summary of a section is on the page.
C7_Halt ==
    (pc \notin {"upload", "preparar"} /\ file_df_final # SemArquivo
       /\ FalhaDePreparo)
        => /\ erro # ""
           /\ pc = "stop"
           /\ avaliadas = {}
           /\ saida = SemSaida

\* a stopped run whose table has the Município column and a column whose
\* year token is not an integer
C7_Witness ==
    /\ pc = "stop" /\ erro # ""
    /\ df_final.idcol = ColMunicipio
    /\ df_final.colunas = <<cxg>>

\* the values the section of saida had to plot, for the filters it kept
Plotados ==
    IF saida.secao = 1 THEN Coluna(DoTipo(saida.tipo), "valor")
    ELSE IF saida.secao = 2
    THEN Coluna(SelectSeq(df_long, LAMBDA r : r.Municipio = saida.municipio
                                              /\ r.tipo \in saida.tipos),
                saida.col)
    ELSE IF saida.secao = 3
    THEN Coluna(SelectSeq(df_long, LAMBDA r : r.tipo = saida.tipo
                                              /\ r.ano = saida.ano), "valor")
    ELSE Coluna(SelectSeq(df_long, LAMBDA r : r.tipo \in saida.tipos
                                              /\ r.Municipio \in saida.cidades),
                saida.col)

\* C8, as stated: a section whose filters leave no non-missing value to
\* plot warns and renders neither chart nor summary; and whatever the
\* outcome of a section, the sections after it are evaluated: a run that
\* reached section 1 ends only after section 4.
C8_Claim ==
    /\ (saida.secao \in 1..4 /\ notna_sum(Plotados) = 0)
          => (saida.aviso /\ ~saida.grafico /\ ~saida.resumo)
    /\ (pc \in {"fim", "excecao", "stop"} /\ 1 \in avaliadas)
          => avaliadas = 1..4

\* C9, as stated: rank_media holds exactly the municipalities with a
\* non-missing valor for the chosen tipo, each with the mean of its
\* non-missing values, in non-increasing order of mean; the Top-N selection
\* and the top 3 hold no municipality whose values are all missing.
C9_Claim ==
    (saida.secao = 1 /\ ~saida.aviso) =>
        LET rows == DoTipo(saida.tipo)
            com_valor == {rows[i].Municipio : i \in {j \in DOMAIN rows : ~rows[j].valor.na}}
            rk == saida.rank_media
            vals(m) == LET g == SelectSeq(rows, LAMBDA r : r.Municipio = m)
                       IN  Mat([i \in DOMAIN g |-> g[i].valor])
        IN  /\ {rk[i].Municipio : i \in DOMAIN rk} = com_valor
            /\ \A i \in DOMAIN rk : rk[i].media = s_mean(vals(rk[i].Municipio))
            /\ \A i, j \in DOMAIN rk : i < j => FLe(rk[j].media, rk[i].media)
            /\ Range(saida.top_muns) \subseteq com_valor
            /\ {saida.top3[i].Municipio : i \in DOMAIN saida.top3} \subseteq com_valor

\* how many times x occurs in the sequence s
Ocorrencias(s, x) == Cardinality({i \in DOMAIN s : s[i] = x})

\* C10: df_rank_sorted holds the rows of the chosen tipo and year, each as
\* often as the long table does (two municipalities with the same valor
\* both appear), in non-increasing order of valor, the rows of missing
\* valor after the others.
C10_Rank ==
    (saida.secao = 3 /\ ~saida.aviso) =>
        LET s == saida.df_rank_sorted
            f == SelectSeq(df_long, LAMBDA r : r.tipo = saida.tipo /\ r.ano = saida.ano)
        IN  /\ Len(s) = Len(f)
            /\ \A x \in Range(f) \cup Range(s) : Ocorrencias(s, x) = Ocorrencias(f, x)
            /\ \A i, j \in DOMAIN s :
                  i < j => /\ (s[i].valor.na => s[j].valor.na)
                           /\ (~s[j].valor.na => FLe(s[j].valor, s[i].valor))

\* a ranking in which two municipalities have the same valor, below a
\* larger one or above a missing one
C10_Witness ==
    /\ saida.secao = 3 /\ ~saida.aviso
    /\ \E i, j \in DOMAIN saida.df_rank_sorted :
          /\ i < j
          /\ saida.df_rank_sorted[i].Municipio # saida.df_rank_sorted[j].Municipio
          /\ FEq(saida.df_rank_sorted[i].valor, saida.df_rank_sorted[j].valor)

\* the rows section 4 keeps for the filters of saida
Mantidas ==
    SelectSeq(df_long, LAMBDA r : r.tipo \in saida.tipos
                                  /\ r.Municipio \in saida.cidades)

\* the mean of the plotted column over the rows of series k in year y
MediaDaSerie(k, y) ==
    LET g == SelectSeq(Mantidas, LAMBDA r : r.ano = y /\ serie_de(r) = k)
    IN  z_mean(Mat([i \in DOMAIN g |-> ComoZ(Col(g[i], saida.col))]))

\* C11, as stated: each kept row has the key "<Município> - <tipo>"; the
\* summary is of the most recent year of the kept rows; resumo4 holds the
\* series of that year, each with the mean of the plotted column, in
\* descending order; the first entry is reported as the series with the
\* maximum mean, the last as the series with the minimum mean, and the gap
\* reported is maximum minus minimum, a number that is not negative.
C11_Claim ==
    (saida.secao = 4 /\ ~saida.aviso) =>
        LET k  == Mantidas
            y  == saida.ano_final4
            r4 == saida.resumo4
            ks == {serie_de(k[i]) : i \in {j \in DOMAIN k : k[j].ano = y}}
        IN  /\ Len(saida.df_comp) = Len(k)
            /\ \A i \in DOMAIN k :
                  /\ saida.df_comp[i].Municipio = k[i].Municipio
                  /\ saida.df_comp[i].tipo = k[i].tipo
                  /\ saida.df_comp[i].serie
                        = <<k[i].Municipio>> \o <<" ", "-", " ">> \o k[i].tipo
            /\ \E i \in DOMAIN k : k[i].ano = y
            /\ \A i \in DOMAIN k : k[i].ano <= y
            /\ {r4[i].serie : i \in DOMAIN r4} = ks
            /\ Len(r4) = Cardinality(ks)
            /\ \A i \in DOMAIN r4 : r4[i].media = MediaDaSerie(r4[i].serie, y)
            /\ saida.serie_top = r4[1].serie
            /\ saida.valor_top = r4[1].media
            /\ ~saida.valor_top.na
            /\ \A i \in DOMAIN r4 : ZLe(r4[i].media, saida.valor_top)
            /\ saida.tem_low = (Len(r4) > 1)
            /\ saida.tem_low =>
                  /\ saida.serie_low = r4[Len(r4)].serie
                  /\ saida.valor_low = r4[Len(r4)].media
                  /\ ~saida.valor_low.na
                  /\ \A i \in DOMAIN r4 : ZLe(saida.valor_low, r4[i].media)
                  /\ saida.diff4 = z_sub(saida.valor_top, saida.valor_low)
                  /\ ~saida.diff4.na
                  /\ ZLe(saida.diff4.menos, saida.diff4.de)

\* C12, as stated: whenever the tipo and year chosen in section 3 have a
\* non-missing valor, the section builds its summary without raising,
\* whatever the number of ranked rows, and the run goes on to section 4.
C12_Claim ==
    (saida.secao = 3 /\ ~saida.aviso)
        => (saida.resumo /\ ~saida.excecao /\ pc = "sec4")

=============================================================================
